---- MODULE Spec2Model ----
(***************************************************************************)
(* Model of the contest-entry backend (src/index.js, lines 1-400): the     *)
(* POST /api/submit-entry route.  A request passes multer's fileFilter,    *)
(* then the handler validates the required fields, uploads the attachments *)
(* to S3 (uploadMultipleFilesToS3 / uploadToS3), inserts one row and       *)
(* answers.  S3 and MySQL are external: each upload and each statement     *)
(* returns later, successfully or not, in any order.                       *)
(* Lines 402-543 of src/index.js are an earlier version of the server (its *)
(* own app, a /submit-entry route without uploads) and src/unnamed holds   *)
(* two more earlier versions; the route modelled is the current one.       *)
(***************************************************************************)
EXTENDS Integers, Sequences, FiniteSets, TLC

(* ---------- bounds of the model ---------- *)
NumReqs == 2
MaxFiles == 2

Reqs == 1..NumReqs

(* ---------- values ---------- *)
Undefined == "<undefined>"
Null == "<null>"

FullNames == {Undefined, "", " ", "Jane Doe"}
Emails == {Undefined, "", " ", "jane@x.com"}
CallerLinks == {Undefined, "https://evil.example/x"}

(* the form as the web client sends it and the empty body, and every body that      *)
(* differs from one of the two in one field                                          *)
BodyFields == {"full_name", "email_address", "visual_links", "visual_link"}

FormBody == [full_name |-> "Jane Doe", email_address |-> "jane@x.com",
             visual_links |-> Undefined, visual_link |-> Undefined]

NoBody == [k \in BodyFields |-> Undefined]

Bodies == {b \in [full_name : FullNames, email_address : Emails,
                  visual_links : CallerLinks, visual_link : CallerLinks] :
              \/ Cardinality({k \in BodyFields : b[k] # FormBody[k]}) <= 1
              \/ Cardinality({k \in BodyFields : b[k] # NoBody[k]}) <= 1}

(* Object.keys(req.body): the fields the request carries *)
BodyKeys(b) == {k \in BodyFields : b[k] # Undefined}

(* JavaScript truthiness of a field value (a string or undefined) *)
Truthy(v) == v # Undefined /\ v # ""

allowedMimes == {"application/pdf", "application/msword",
    "application/vnd.openxmlformats-officedocument.wordprocessingml.document",
    "image/jpeg", "image/jpg", "image/png", "image/tiff", "image/tif",
    "video/mp4", "video/quicktime", "video/x-msvideo",
    "audio/mpeg", "audio/wav", "audio/wave", "audio/x-wav"}

FileSet == {[originalname |-> "a.png", mimetype |-> "image/png"],
            [originalname |-> "b.pdf", mimetype |-> "application/pdf"],
            [originalname |-> "c.zip", mimetype |-> "application/zip"]}

RECURSIVE SeqsUpTo(_, _)
SeqsUpTo(S, n) ==
    IF n = 0 THEN {<<>>}
    ELSE LET shorter == SeqsUpTo(S, n - 1)
         IN  shorter \cup {Append(s, x) : s \in {t \in shorter : Len(t) = n - 1}, x \in S}

FileLists == SeqsUpTo(FileSet, MaxFiles)

(* process.env *)
NodeEnvs == {Undefined, "development", "production"}
AwsRegions == {Undefined, "eu-west-1"}
S3_BUCKET_NAME == "cca-bucket"

(* Date.now() and Math.random().toString(36).substring(2, 15) *)
TimeStamps == {"1730600000000"}
RandomIds == {"k3x9q"}

(* errors of the external services *)
S3Errors == {"AccessDenied: Access Denied"}

DbErrors == {
    [code |-> "ER_BAD_FIELD_ERROR",
     sqlMessage |-> <<"Unknown column", "visual_links", "in", "field list">>,
     message |-> "Unknown column 'visual_links' in 'field list'"],
    [code |-> "ER_BAD_FIELD_ERROR",
     sqlMessage |-> <<"Unknown column", "why_outstanding", "in", "field list">>,
     message |-> "Unknown column 'why_outstanding' in 'field list'"],
    [code |-> "ECONNRESET",
     sqlMessage |-> <<>>,
     message |-> "read ECONNRESET"]}

NoError == [code |-> Undefined, sqlMessage |-> <<>>, message |-> Undefined]

VARIABLES
    env,            \* process.env: NODE_ENV and AWS_REGION
    pc,             \* per request: where its handler stands
    body,           \* req.body
    files,          \* req.files
    uploaderCalls,  \* per request: calls of uploadMultipleFilesToS3
    uploads,        \* per request: the uploadToS3 calls, in attachment order
    results,        \* per request: the array Promise.all fills
    visual_links,   \* the handler's local visual_links
    stmts,          \* per request: the statements issued to the store
    dbErr,          \* the err of the handler's insert catch block
    response,       \* the response sent
    sent,           \* per request: number of responses sent
    rows            \* the submissions table

vars == <<env, pc, body, files, uploaderCalls, uploads, results, visual_links,
          stmts, dbErr, response, sent, rows>>

NoResponse == [status |-> 0, message |-> Undefined, error |-> Undefined,
               visual_links |-> Undefined, entry_id |-> 0]

Init ==
    /\ env \in [NODE_ENV : NodeEnvs, AWS_REGION : AwsRegions]
    /\ pc = [r \in Reqs |-> "idle"]
    /\ body = [r \in Reqs |-> NoBody]
    /\ files = [r \in Reqs |-> <<>>]
    /\ uploaderCalls = [r \in Reqs |-> 0]
    /\ uploads = [r \in Reqs |-> <<>>]
    /\ results = [r \in Reqs |-> <<>>]
    /\ visual_links = [r \in Reqs |-> Null]
    /\ stmts = [r \in Reqs |-> <<>>]
    /\ dbErr = [r \in Reqs |-> NoError]
    /\ response = [r \in Reqs |-> NoResponse]
    /\ sent = [r \in Reqs |-> 0]
    /\ rows = <<>>

(* ---------- helpers of the route ---------- *)

(* multer's fileFilter: cb(null, true) iff the declared type is allowed *)
fileFilter(file) == file.mimetype \in allowedMimes

(* String.prototype.trim on the values of the model *)
Trim(v) == IF v = " " THEN "" ELSE v

(* mutant: the check trims the fields first *)
RequiredFieldsMissingTrimmed(b) ==
    \/ b.full_name = Undefined \/ ~Truthy(Trim(b.full_name))
    \/ b.email_address = Undefined \/ ~Truthy(Trim(b.email_address))

(* if (!full_name || !email_address) *)
RequiredFieldsMissing(b) == ~Truthy(b.full_name) \/ ~Truthy(b.email_address)

(* mutant: the handler calls the Uploader whatever req.files holds *)
HasFilesAlways(fs) == TRUE

(* if (req.files && req.files.length > 0) *)
HasFiles(fs) == Len(fs) > 0

(* mutant: visual_links starts from the body's field *)
InitialVisualLinksFromBody(b) ==
    IF b.visual_links # Undefined THEN b.visual_links ELSE Null

(* let visual_links = null; the body's visual_links and visual_link are not destructured *)
InitialVisualLinks(b) == Null

(* mutant: the uploads are awaited one after the other (for .. of with await) *)
IssuedAtCallFirstOnly(n) == {1}

(* files.map(async (file) => ..): every callback runs to its first await, the      *)
(* s3Client.send of its upload, before map returns: the uploads issued by the call *)
IssuedAtCall(n) == 1..n

(* `ccapatrika/${timestamp}-${randomId}-${file.originalname}` *)
FileName(timestamp, randomId, originalname) ==
    "ccapatrika/" \o timestamp \o "-" \o randomId \o "-" \o originalname

(* the region of s3Client *)
S3ClientRegion == IF env.AWS_REGION # Undefined THEN env.AWS_REGION ELSE "ap-south-1"

(* the URL uploadToS3 returns after s3Client.send succeeded *)
S3Url(fileName) ==
    "https://" \o S3_BUCKET_NAME \o ".s3."
        \o (IF env.AWS_REGION # Undefined THEN env.AWS_REGION ELSE "us-east-1")
        \o ".amazonaws.com/" \o fileName

(* mutant: the catch block logs and forgets to rethrow *)
UploadToS3CatchSwallows(error) == [threw |-> FALSE, value |-> Undefined]

(* uploadToS3's catch block: logs and rethrows *)
UploadToS3Catch(error) == [threw |-> TRUE, value |-> error]

(* Promise.all: an array of the inputs' length, filled by input position *)
Empty == "<empty>"
PromiseAllInit(n) == [i \in 1..n |-> Empty]
(* mutant: the values are kept in the order the promises settle *)
PromiseAllStoreInCompletionOrder(res, i, value) ==
    LET first == CHOOSE k \in 1..Len(res) :
                    res[k] = Empty /\ \A j \in 1..(k - 1) : res[j] # Empty
    IN  [res EXCEPT ![first] = value]

PromiseAllStore(res, i, value) == [res EXCEPT ![i] = value]
(* mutant: the first settled promise fulfils the whole (Promise.race) *)
PromiseAllFulfilledByAny(res) == \E i \in 1..Len(res) : res[i] # Empty

PromiseAllFulfilled(res) == \A i \in 1..Len(res) : res[i] # Empty

(* Array.prototype.join(",") *)
RECURSIVE Join(_)
Join(urls) ==
    IF Len(urls) = 0 THEN ""
    ELSE LET head == IF urls[1] = Undefined THEN "" ELSE urls[1]
         IN  IF Len(urls) = 1 THEN head ELSE head \o "," \o Join(Tail(urls))

(* String.prototype.includes on the words of a message *)
Includes(words, w) == \E i \in 1..Len(words) : words[i] = w

(* mutant: every unknown-column error starts the column check *)
ColumnIssueAnyColumn(err) == err.code = "ER_BAD_FIELD_ERROR"

(* err.code === "ER_BAD_FIELD_ERROR" && err.sqlMessage && err.sqlMessage.includes("visual_links") *)
ColumnIssue(err) ==
    /\ err.code = "ER_BAD_FIELD_ERROR"
    /\ err.sqlMessage # <<>>
    /\ Includes(err.sqlMessage, "visual_links")

(* mutant: the message is sent in every mode *)
ErrorDetailAlways(err) == err.message

(* process.env.NODE_ENV === "development" ? err.message : "Database error occurred" *)
ErrorDetail(err) ==
    IF env.NODE_ENV = "development" THEN err.message ELSE "Database error occurred"

(* ---------- the responses ---------- *)

(* fileFilter's cb(new Error(..)) makes multer call next(err); the application     *)
(* installs no error-handling middleware, so Express's default handler answers     *)
(* with the status of the error, which has none: 500, and a body that is not JSON  *)
ExpressDefaultError == [NoResponse EXCEPT !.status = 500]

NoFormData == [NoResponse EXCEPT !.status = 400,
    !.message = "No form data received. Please ensure you're sending the form data correctly."]

MissingRequired == [NoResponse EXCEPT !.status = 400,
    !.message = "Missing required fields: full_name and email_address are required."]

Submitted(links, id) == [status |-> 200, message |-> "Entry successfully submitted!",
    error |-> Undefined, visual_links |-> links, entry_id |-> id]

SaveError(err) == [NoResponse EXCEPT !.status = 500,
    !.message = "Error saving the entry.", !.error = ErrorDetail(err)]

ProcessingError(message) == [NoResponse EXCEPT !.status = 500,
    !.message = "Error processing submission.", !.error = message]

(* res.status(..).json(..) *)
Send(r, resp) ==
    /\ response' = [response EXCEPT ![r] = resp]
    /\ sent' = [sent EXCEPT ![r] = @ + 1]

(* ---------- the statements ---------- *)
InsertStmt(b, links) == [sql |-> "INSERT",
    values |-> [full_name |-> b.full_name, email_address |-> b.email_address,
                visual_links |-> links]]

ShowColumnsStmt == [sql |-> "SHOW COLUMNS",
    values |-> [full_name |-> Undefined, email_address |-> Undefined,
                visual_links |-> Undefined]]

(* the handler from `const query` to promiseDb.execute(query, values) *)
IssueInsert(r, b, links) ==
    /\ visual_links' = [visual_links EXCEPT ![r] = links]
    /\ stmts' = [stmts EXCEPT ![r] = Append(@, InsertStmt(b, links))]
    /\ pc' = [pc EXCEPT ![r] = "inserting"]

(* a response that ends the request before any upload or statement *)
EndEarly(r, resp) ==
    /\ Send(r, resp)
    /\ pc' = [pc EXCEPT ![r] = "done"]
    /\ UNCHANGED <<uploaderCalls, uploads, results, visual_links, stmts>>

(* ---------- the actions ---------- *)

(* A request arrives: multer's fileFilter, then the handler up to its first await *)
Receive(r) ==
    /\ pc[r] = "idle"
    /\ \E b \in Bodies, fs \in FileLists,
          timestamp \in [1..MaxFiles -> TimeStamps], randomId \in [1..MaxFiles -> RandomIds] :
        /\ body' = [body EXCEPT ![r] = b]
        /\ files' = [files EXCEPT ![r] = fs]
        /\ IF \E i \in 1..Len(fs) : ~fileFilter(fs[i])
           THEN EndEarly(r, ExpressDefaultError)
           ELSE IF BodyKeys(b) = {}
           THEN EndEarly(r, NoFormData)
           ELSE IF RequiredFieldsMissing(b)
           THEN EndEarly(r, MissingRequired)
           ELSE IF HasFiles(fs)
           THEN /\ uploaderCalls' = [uploaderCalls EXCEPT ![r] = @ + 1]
                /\ IF Len(fs) = 0
                   THEN /\ IssueInsert(r, b, Null)
                        /\ UNCHANGED <<uploads, results, response, sent>>
                   ELSE /\ uploads' = [uploads EXCEPT ![r] =
                               [i \in 1..Len(fs) |->
                                   [key |-> FileName(timestamp[i], randomId[i], fs[i].originalname),
                                    region |-> S3ClientRegion,
                                    state |-> IF i \in IssuedAtCall(Len(fs))
                                              THEN "pending" ELSE "unissued",
                                    url |-> Undefined]]]
                        /\ results' = [results EXCEPT ![r] = PromiseAllInit(Len(fs))]
                        /\ pc' = [pc EXCEPT ![r] = "uploading"]
                        /\ UNCHANGED <<visual_links, stmts, response, sent>>
           ELSE /\ IssueInsert(r, b, InitialVisualLinks(b))
                /\ UNCHANGED <<uploaderCalls, uploads, results, response, sent>>
    /\ UNCHANGED <<env, dbErr, rows>>

(* upload i of request r settles with a value: Promise.all records it and, when the *)
(* last one is in, uploadMultipleFilesToS3 returns the joined string to the handler *)
Resolve(r, i, state, value) ==
    LET res == PromiseAllStore(results[r], i, value)
    IN  /\ uploads' = [uploads EXCEPT ![r][i] = [@ EXCEPT !.state = state, !.url = value]]
        /\ results' = [results EXCEPT ![r] = res]
        /\ IF pc[r] = "uploading" /\ PromiseAllFulfilled(res)
           THEN IssueInsert(r, body[r], Join(res))
           ELSE UNCHANGED <<visual_links, stmts, pc>>
        /\ UNCHANGED <<response, sent>>

(* mutant: every failed upload sends its own 500 *)
RejectAnswersEach(r, i, error) ==
    /\ uploads' = [uploads EXCEPT ![r][i] = [@ EXCEPT !.state = "failed"]]
    /\ Send(r, ProcessingError(error))
    /\ pc' = [pc EXCEPT ![r] = "done"]
    /\ UNCHANGED <<results, visual_links, stmts>>

(* upload i of request r fails: Promise.all rejects on the first failure and the *)
(* handler's outer catch block answers *)
Reject(r, i, error) ==
    /\ uploads' = [uploads EXCEPT ![r][i] = [@ EXCEPT !.state = "failed"]]
    /\ IF pc[r] = "uploading"
       THEN /\ Send(r, ProcessingError(error))
            /\ pc' = [pc EXCEPT ![r] = "done"]
       ELSE UNCHANGED <<response, sent, pc>>
    /\ UNCHANGED <<results, visual_links, stmts>>

(* s3Client.send(command) of upload i returns *)
UploadSucceed(r, i) ==
    /\ i \in 1..Len(uploads[r])
    /\ uploads[r][i].state = "pending"
    /\ Resolve(r, i, "ok", S3Url(uploads[r][i].key))
    /\ UNCHANGED <<env, body, files, uploaderCalls, dbErr, rows>>

(* s3Client.send(command) of upload i throws *)
UploadFail(r, i) ==
    /\ i \in 1..Len(uploads[r])
    /\ uploads[r][i].state = "pending"
    /\ \E e \in S3Errors :
        LET out == UploadToS3Catch(e)
        IN  IF out.threw THEN Reject(r, i, out.value) ELSE Resolve(r, i, "failed", out.value)
    /\ UNCHANGED <<env, body, files, uploaderCalls, dbErr, rows>>

(* mutant: the id column is not AUTO_INCREMENT and keeps its default *)
InsertIdNotIncremented(table) == 1

(* id INT AUTO_INCREMENT PRIMARY KEY: the id the store gives the next row *)
InsertId(table) == Len(table) + 1

(* the INSERT returns a result: the row is in the table, with a fresh id (its req   *)
(* field is not a column: it records which request inserted the row)               *)
InsertOk(r) ==
    /\ pc[r] = "inserting"
    /\ LET id == InsertId(rows)
           v == stmts[r][Len(stmts[r])].values
       IN  /\ rows' = Append(rows, [id |-> id, req |-> r, full_name |-> v.full_name,
                                    email_address |-> v.email_address,
                                    visual_links |-> v.visual_links])
           /\ Send(r, Submitted(visual_links[r], id))
    /\ pc' = [pc EXCEPT ![r] = "done"]
    /\ UNCHANGED <<env, body, files, uploaderCalls, uploads, results, visual_links,
                   stmts, dbErr>>

(* the INSERT throws: the handler's inner catch block *)
InsertFail(r) ==
    /\ pc[r] = "inserting"
    /\ \E err \in DbErrors :
        /\ dbErr' = [dbErr EXCEPT ![r] = err]
        /\ IF ColumnIssue(err)
           THEN /\ stmts' = [stmts EXCEPT ![r] = Append(@, ShowColumnsStmt)]
                /\ pc' = [pc EXCEPT ![r] = "checking"]
                /\ UNCHANGED <<response, sent>>
           ELSE /\ Send(r, SaveError(err))
                /\ pc' = [pc EXCEPT ![r] = "done"]
                /\ UNCHANGED stmts
    /\ UNCHANGED <<env, body, files, uploaderCalls, uploads, results, visual_links, rows>>

(* SHOW COLUMNS returns or throws (both are only logged), then the 500 is sent *)
ColumnCheckReturn(r) ==
    /\ pc[r] = "checking"
    /\ Send(r, SaveError(dbErr[r]))
    /\ pc' = [pc EXCEPT ![r] = "done"]
    /\ UNCHANGED <<env, body, files, uploaderCalls, uploads, results, visual_links,
                   stmts, dbErr, rows>>

(* the steps of one request *)
Step(r) ==
    \/ Receive(r)
    \/ \E i \in 1..MaxFiles : UploadSucceed(r, i)
    \/ \E i \in 1..MaxFiles : UploadFail(r, i)
    \/ InsertOk(r)
    \/ InsertFail(r)
    \/ ColumnCheckReturn(r)

Next == \E r \in Reqs : Step(r)

(* NumReqs requests, interleaved in any way *)
Spec == Init /\ [][Next]_vars

(* one request on its own *)
SpecOne == Init /\ [][Step(1)]_vars

(* one request on its own, each of whose external calls returns: every upload      *)
(* issued settles, the INSERT and the SHOW COLUMNS return                          *)
SpecOneReturns ==
    /\ SpecOne
    /\ \A i \in 1..MaxFiles : WF_vars(UploadSucceed(1, i) \/ UploadFail(1, i))
    /\ WF_vars(InsertOk(1) \/ InsertFail(1))
    /\ WF_vars(ColumnCheckReturn(1))

(* ---------- vocabulary of the properties ---------- *)
Received(r) == pc[r] # "idle"
Done(r) == pc[r] = "done"
MissingOrEmpty(v) == v = Undefined \/ v = ""
WhitespaceOnly(v) == v = " "
AllAllowed(fs) == \A i \in 1..Len(fs) : fs[i].mimetype \in allowedMimes
ValidBody(b) == ~MissingOrEmpty(b.full_name) /\ ~MissingOrEmpty(b.email_address)
Inserts(r) == {k \in 1..Len(stmts[r]) : stmts[r][k].sql = "INSERT"}
RowsOf(r) == {k \in 1..Len(rows) : rows[k].req = r}
UploadStates(r) == {uploads[r][i].state : i \in 1..Len(uploads[r])}

(* ---------- C1 ---------- *)
(* C1: every request whose full_name or email_address is missing or empty is      *)
(* answered 400 and reaches neither the Uploader nor the Writer, whatever          *)
(* attachments it carries.                                                         *)
C1_MissingRequiredIs400 ==
    \A r \in Reqs :
        (Received(r) /\ (MissingOrEmpty(body[r].full_name)
                            \/ MissingOrEmpty(body[r].email_address)))
            => /\ response[r].status = 400
               /\ uploaderCalls[r] = 0
               /\ uploads[r] = <<>>
               /\ stmts[r] = <<>>

(* ---------- C2 ---------- *)
(* C2: a request with an attachment of a type outside the allow-list uploads       *)
(* nothing, inserts nothing and is answered 400.                                   *)
C2_DisallowedTypeIs400 ==
    \A r \in Reqs :
        (Received(r) /\ ~AllAllowed(files[r]))
            => /\ uploaderCalls[r] = 0
               /\ uploads[r] = <<>>
               /\ stmts[r] = <<>>
               /\ response[r].status = 400

(* ---------- C3 ---------- *)
(* C3: once an upload of a request has failed, the request has no reference list,  *)
(* no statement was or is issued for it, no row is its own, and its answer is 500. *)
C3_FailedUploadFailsBatch ==
    \A r \in Reqs :
        ("failed" \in UploadStates(r))
            => /\ visual_links[r] = Null
               /\ stmts[r] = <<>>
               /\ RowsOf(r) = {}
               /\ response[r].status = 500
               /\ sent[r] = 1

(* a batch of two where one upload succeeded and the other failed *)
C3_Witness ==
    \E r \in Reqs :
        /\ Len(uploads[r]) = 2
        /\ UploadStates(r) = {"ok", "failed"}
        /\ response[r].status = 500

(* ---------- C4 ---------- *)
(* the URLs of the first n uploads, in attachment order, separated by commas *)
RECURSIVE CommaSeparated(_, _)
CommaSeparated(us, n) ==
    IF n = 1 THEN us[1].url ELSE CommaSeparated(us, n - 1) \o "," \o us[n].url

(* C4: a valid request with N >= 1 allowed attachments whose uploads all succeeded *)
(* has one upload per attachment, in attachment order, and exactly one INSERT,     *)
(* whose visual_links is the N URLs in attachment order separated by commas; the   *)
(* row and the 200 response carry the same value.                                  *)
C4_LinksInAttachmentOrder ==
    \A r \in Reqs :
        (Received(r) /\ ValidBody(body[r]) /\ Len(files[r]) >= 1
                /\ UploadStates(r) = {"ok"})
            => LET expected == CommaSeparated(uploads[r], Len(uploads[r]))
               IN  /\ Len(uploads[r]) = Len(files[r])
                   /\ \A i \in 1..Len(files[r]) :
                        /\ \E t \in TimeStamps, x \in RandomIds :
                            uploads[r][i].key = FileName(t, x, files[r][i].originalname)
                        /\ uploads[r][i].url = S3Url(uploads[r][i].key)
                   /\ Cardinality(Inserts(r)) = 1
                   /\ stmts[r][1].sql = "INSERT"
                   /\ stmts[r][1].values.visual_links = expected
                   /\ \A k \in RowsOf(r) : rows[k].visual_links = expected
                   /\ response[r].status = 200 => response[r].visual_links = expected

(* two attachments of different names, both uploaded, the row inserted *)
C4_Witness ==
    \E r \in Reqs :
        /\ Len(files[r]) = 2
        /\ files[r][1].originalname # files[r][2].originalname
        /\ response[r].status = 200
        /\ RowsOf(r) # {}
        /\ response[r].visual_links = uploads[r][1].url \o "," \o uploads[r][2].url

(* ---------- C5 ---------- *)
(* C5: a valid request without attachments never calls the Uploader, its INSERT    *)
(* and its row carry a null visual_links, and its 200 response reports null.       *)
C5_NoAttachmentsNullLinks ==
    \A r \in Reqs :
        (Received(r) /\ ValidBody(body[r]) /\ Len(files[r]) = 0)
            => /\ uploaderCalls[r] = 0
               /\ uploads[r] = <<>>
               /\ Inserts(r) # {}
               /\ \A k \in Inserts(r) : stmts[r][k].values.visual_links = Null
               /\ \A k \in RowsOf(r) : rows[k].visual_links = Null
               /\ response[r].status = 200 => response[r].visual_links = Null

(* a request without attachments was inserted and answered 200 *)
C5_Witness ==
    \E r \in Reqs :
        /\ Received(r) /\ Len(files[r]) = 0
        /\ response[r].status = 200
        /\ \E k \in RowsOf(r) : rows[k].visual_links = Null

(* ---------- C6 ---------- *)
DbMessages == {e.message : e \in DbErrors}

(* C6: a request whose INSERT failed is answered 500, once; the body carries the   *)
(* store's message only outside production mode, and none of it in production.     *)
C6_InsertFailureDetailGated ==
    \A r \in Reqs :
        (Done(r) /\ dbErr[r] # NoError)
            => /\ response[r].status = 500
               /\ sent[r] = 1
               /\ RowsOf(r) = {}
               /\ response[r].error \in DbMessages => env.NODE_ENV # "production"
               /\ env.NODE_ENV = "production" => response[r].error = "Database error occurred"
               /\ env.NODE_ENV = "development" => response[r].error = dbErr[r].message

(* production mode, the INSERT rejected for the visual_links column, 500 sent *)
C6_Witness ==
    \E r \in Reqs :
        /\ env.NODE_ENV = "production"
        /\ Done(r) /\ ColumnIssue(dbErr[r])
        /\ response[r].status = 500

(* ---------- C7 ---------- *)
(* C7: in production mode the response to a request with a failed upload carries   *)
(* no message of the storage service.                                              *)
C7_UploadFailureDetailGated ==
    \A r \in Reqs :
        (env.NODE_ENV = "production" /\ "failed" \in UploadStates(r))
            => response[r].error \notin S3Errors

(* ---------- C8 ---------- *)
(* C8: when a statement of a request has been issued, every attachment of the      *)
(* request has its upload and none of these uploads is outstanding.               *)
C8_InsertAfterAllUploads ==
    \A r \in Reqs :
        stmts[r] # <<>>
            => /\ Len(uploads[r]) = Len(files[r])
               /\ "pending" \notin UploadStates(r)

(* a request of two attachments has its INSERT issued while another request is     *)
(* still uploading                                                                 *)
C8_Witness ==
    \E r, q \in Reqs :
        /\ r # q
        /\ Len(uploads[r]) = 2 /\ Inserts(r) # {}
        /\ "pending" \in UploadStates(q)

(* ---------- C9 ---------- *)
(* C9: a request whose full_name or email_address is only whitespace, and whose    *)
(* uploads and insert did not fail, ends rejected with 400 and without a row.      *)
C9_WhitespaceOnlyRejected ==
    \A r \in Reqs :
        (Done(r) /\ AllAllowed(files[r])
                /\ "failed" \notin UploadStates(r) /\ dbErr[r] = NoError
                /\ (WhitespaceOnly(body[r].full_name) \/ WhitespaceOnly(body[r].email_address)))
            => /\ response[r].status = 400
               /\ RowsOf(r) = {}

(* C9, amended: the required-field check does not trim. A request that passes the  *)
(* attachment filter with both fields non-empty, one of them only whitespace, is   *)
(* not rejected: it goes on to its uploads or its INSERT and, when these do not    *)
(* fail, ends with 200 and a row that holds the whitespace value as sent.          *)
C9_WhitespaceOnlyAccepted ==
    \A r \in Reqs :
        (Received(r) /\ AllAllowed(files[r]) /\ ValidBody(body[r])
                /\ (WhitespaceOnly(body[r].full_name) \/ WhitespaceOnly(body[r].email_address)))
            => /\ response[r].status # 400
               /\ uploads[r] # <<>> \/ stmts[r] # <<>>
               /\ (Done(r) /\ "failed" \notin UploadStates(r) /\ dbErr[r] = NoError)
                    => /\ response[r].status = 200
                       /\ \E k \in RowsOf(r) :
                            /\ rows[k].full_name = body[r].full_name
                            /\ rows[k].email_address = body[r].email_address

(* a row whose full_name is a single space was inserted and answered 200 *)
C9_Witness ==
    \E r \in Reqs :
        /\ WhitespaceOnly(body[r].full_name)
        /\ response[r].status = 200
        /\ \E k \in RowsOf(r) : rows[k].full_name = " "

(* ---------- C10 ---------- *)
UrlsOf(r) == [i \in 1..Len(uploads[r]) |-> uploads[r][i].url]

(* C10: two requests with the same required fields, the same attachments and the   *)
(* same upload results, whatever visual_links or visual_link field each body       *)
(* carries, have the                                                               *)
(* same visual_links in their INSERT, in their row and in their 200 response.      *)
C10_LinksIgnoreCallerField ==
    \A r, q \in Reqs :
        (/\ Inserts(r) # {} /\ Inserts(q) # {}
         /\ body[r].full_name = body[q].full_name
         /\ body[r].email_address = body[q].email_address
         /\ files[r] = files[q]
         /\ UrlsOf(r) = UrlsOf(q))
            => /\ \A k \in Inserts(r), l \in Inserts(q) :
                    stmts[r][k].values.visual_links = stmts[q][l].values.visual_links
               /\ \A k \in RowsOf(r), l \in RowsOf(q) :
                    rows[k].visual_links = rows[l].visual_links
               /\ (response[r].status = 200 /\ response[q].status = 200)
                    => response[r].visual_links = response[q].visual_links

(* two inserted requests that differ only in the visual_links field of the body *)
C10_Witness ==
    \E r, q \in Reqs :
        /\ body[r].visual_links = Undefined /\ body[r].visual_link = Undefined
        /\ body[q].visual_links # Undefined \/ body[q].visual_link # Undefined
        /\ body[r].full_name = body[q].full_name
        /\ body[r].email_address = body[q].email_address
        /\ files[r] = files[q]
        /\ response[r].status = 200 /\ response[q].status = 200
        /\ RowsOf(r) # {} /\ RowsOf(q) # {}

(* ---------- C11 ---------- *)
Answered200 == {r \in Reqs : response[r].status = 200}

(* C11: the table has as many rows as there are requests answered 200; each such   *)
(* request inserted exactly one row, whose id is the entry_id it was answered;     *)
(* no other request has a row; the ids of the rows, and so the entry_ids           *)
(* answered, are pairwise distinct, whatever the requests carried.                 *)
C11_OneRowPerAcceptedRequest ==
    /\ Len(rows) = Cardinality(Answered200)
    /\ \A r \in Reqs :
        IF r \in Answered200
        THEN /\ Cardinality(RowsOf(r)) = 1
             /\ Cardinality(Inserts(r)) = 1
             /\ \A k \in RowsOf(r) : rows[k].id = response[r].entry_id
        ELSE RowsOf(r) = {}
    /\ \A k, l \in 1..Len(rows) : k # l => rows[k].id # rows[l].id
    /\ \A r, q \in Answered200 : r # q => response[r].entry_id # response[q].entry_id

(* two requests with the same fields and no attachments, both answered 200 *)
C11_Witness ==
    \E r, q \in Reqs :
        /\ r # q
        /\ body[r] = body[q]
        /\ files[r] = <<>> /\ files[q] = <<>>
        /\ response[r].status = 200 /\ response[q].status = 200
        /\ response[r].entry_id # response[q].entry_id
        /\ Len(rows) = 2

(* ---------- C12 ---------- *)
SchemaMismatch(err) == err.code = "ER_BAD_FIELD_ERROR"
NamesVisualLinks(err) == \E i \in 1..Len(err.sqlMessage) : err.sqlMessage[i] = "visual_links"

(* C12: a request whose INSERT was rejected with a schema mismatch has issued no   *)
(* statement but that INSERT.                                                      *)
C12_NoStatementAfterFailedInsert ==
    \A r \in Reqs :
        SchemaMismatch(dbErr[r]) => Len(stmts[r]) = 1

(* C12, amended: the Writer does not alter the store's structure. After a failed   *)
(* INSERT the request issues no further statement, except that a schema mismatch   *)
(* naming the visual_links column is followed by one read-only SHOW COLUMNS for    *)
(* that column before the 500; no row is written and one 500 is sent.              *)
C12_OnlyColumnCheckAfterFailedInsert ==
    \A r \in Reqs :
        dbErr[r] # NoError
            => /\ stmts[r][1].sql = "INSERT"
               /\ Len(stmts[r]) =
                    IF SchemaMismatch(dbErr[r]) /\ NamesVisualLinks(dbErr[r]) THEN 2 ELSE 1
               /\ \A k \in 2..Len(stmts[r]) : stmts[r][k] = ShowColumnsStmt
               /\ RowsOf(r) = {}
               /\ sent[r] = IF Done(r) THEN 1 ELSE 0
               /\ Done(r) => response[r].status = 500

(* the 500 was sent after the INSERT and the SHOW COLUMNS *)
C12_Witness ==
    \E r \in Reqs :
        /\ Done(r) /\ response[r].status = 500
        /\ SchemaMismatch(dbErr[r])
        /\ Len(stmts[r]) = 2 /\ stmts[r][2].sql = "SHOW COLUMNS"

(* ---------- C13 ---------- *)
(* C13: in a batch of N >= 2 attachments every upload is issued as soon as the     *)
(* batch has started: whatever the others' outcomes, no upload is left unissued,   *)
(* and each outstanding upload can complete, or fail, on its own.                  *)
C13_AllUploadsIssuedTogether ==
    \A r \in Reqs :
        (Len(files[r]) >= 2 /\ uploaderCalls[r] > 0)
            => /\ Len(uploads[r]) = Len(files[r])
               /\ \A i \in 1..Len(uploads[r]) :
                    /\ uploads[r][i].state \in {"pending", "ok", "failed"}
                    /\ uploads[r][i].state = "pending"
                        => (ENABLED UploadSucceed(r, i)) /\ (ENABLED UploadFail(r, i))

(* one upload of a batch of two has failed, the 500 is sent, and the other upload  *)
(* is issued and outstanding                                                       *)
C13_Witness ==
    \E r \in Reqs :
        /\ Len(uploads[r]) = 2
        /\ uploads[r][1].state = "failed"
        /\ uploads[r][2].state = "pending"
        /\ response[r].status = 500

(* ---------- C14 ---------- *)
(* C14: a request never has two responses; when its handler has ended it has       *)
(* exactly one, of status 400, 500 or 200, and before that none; and a request     *)
(* received, whose external calls each return, ends.                               *)
C14_ExactlyOneResponse ==
    \A r \in Reqs :
        /\ [](sent[r] <= 1)
        /\ [](Done(r) => (sent[r] = 1 /\ response[r].status \in {400, 500, 200}))
        /\ [](~Done(r) => (sent[r] = 0 /\ response[r] = NoResponse))
        /\ (Received(r) ~> Done(r))

(* the INSERT failed, the column check returned, and one 500 was sent *)
C14_Witness ==
    \E r \in Reqs :
        /\ Done(r) /\ Len(stmts[r]) = 2
        /\ sent[r] = 1 /\ response[r].status = 500

(* ---------- C15 ---------- *)
(* the URL of an object of the bucket stored under a key in a region *)
UrlInRegion(region, key) ==
    "https://" \o S3_BUCKET_NAME \o ".s3." \o region \o ".amazonaws.com/" \o key

(* C15: the URL returned for an uploaded attachment names the region in which      *)
(* the storage client wrote the object.                                            *)
C15_UrlNamesClientRegion ==
    \A r \in Reqs :
        \A i \in 1..Len(uploads[r]) :
            uploads[r][i].state = "ok"
                => uploads[r][i].url = UrlInRegion(uploads[r][i].region, uploads[r][i].key)

====
